---- MODULE Spec2Model ----
(***************************************************************************)
(* Model of the plugin messaging layer of src/utils/pluginSDK.ts:          *)
(* Publisher, Subscription, Service, Client (request/response correlator)  *)
(* and PluginBus (collections, dispatch of inbound envelopes, teardown).   *)
(*                                                                         *)
(* JavaScript runs every handler to completion on one thread, so each      *)
(* action below is one whole call or one whole handler run.                *)
(***************************************************************************)
EXTENDS Naturals, Sequences, FiniteSets, TLC

VARIABLES
  subscriptions,  \* PluginBus.subscriptions: array of Subscription ids
  publishers,     \* PluginBus.publishers: array of Publisher ids
  clients,        \* PluginBus.clients: array of Client ids
  services,       \* PluginBus.services: array of Service ids
  listening,      \* PluginBus.messageHandler is installed on the window
  subObj,         \* every Subscription constructed so far, by id
  pubObj,         \* every Publisher constructed so far, by id
  cliObj,         \* every Client constructed so far, by id
  svcObj,         \* every Service constructed so far, by id
  calls,          \* every sendRequest call made so far, by call number
  posted,         \* envelopes handed to parent.postMessage by the step just taken
  notified,       \* callback invocations made by the step just taken
  teardown,       \* what PluginBus.destroy() did, in order, in the step just taken
  errors,         \* console.error calls of catch blocks in the step just taken
  escaped,        \* an exception left the handler run by the step just taken
  sdkObj,         \* every PluginSDK constructed so far, by id
  pluginSDKInstance, \* the module's singleton: an id, 0 for null
  held,           \* the PluginSDK the application holds: what getPluginSDK()
                  \* returned last, 0 before the first call
  inReplyTo       \* the call whose request the host frame answered with the
                  \* envelope delivered by the step just taken, 0 for none

vars == <<subscriptions, publishers, clients, services, listening, subObj,
          pubObj, cliObj, svcObj, calls, posted, notified, teardown, errors, escaped,
          sdkObj, pluginSDKInstance, held, inReplyTo>>

-----------------------------------------------------------------------------
(* Bounds of the model.                                                    *)

\* objects the application creates (subscriptions, publishers, clients,
\* services, PluginSDK instances) plus the requests it makes (sendRequest,
\* getUpsunContext, getUrlParams, setUrlParams)
MaxOps == 3

-----------------------------------------------------------------------------
(* JavaScript values, as tagged records.                                   *)

Undef == [t |-> "undefined"]
Null == [t |-> "null"]
Num(n) == [t |-> "number", v |-> n]
Str(s) == [t |-> "string", v |-> s]
\* a ServiceMessage-shaped object {reqId, data}
Msg(r, d) == [t |-> "object", reqId |-> r, data |-> d]

\* JavaScript truthiness, as used by `data || params` and `!action`
Truthy(v) ==
  \/ v.t = "object"
  \/ v.t = "number" /\ v.v # 0
  \/ v.t = "string" /\ v.v # ""

\* timeoutMs: number = 1000
DefaultTimeoutMs == 1000

\* topics
UserTopics == {"T", "U"}
PublishTopics == {"OUT"}
ClientTopics == {"ECHO"}
ReqTopic(topic) == topic \o "_REQ"
ResTopic(topic) == topic \o "_RES"

\* request ids and payloads the application uses
ReqIds == {1, 2}
RequestData == {Str("*")}
\* the timeoutMs argument: <<>> when omitted, <<ms>> when given
TimeoutArgs == {<< >>, <<0>>}

\* what the host frame may post
ResponseData == {Num(7)}
InData == {Undef, Num(0), Num(5)}
InParams == {Num(9)}
InMsg == {Undef} \cup {Msg(r, d) : r \in {Undef} \cup {Num(i) : i \in ReqIds}, d \in ResponseData}
\* MessageEvent.data: no message at all, a message without action, with an
\* empty action, on an application topic, on a response topic
Envelopes ==
  {Undef, Null}
    \cup [t : {"object"}, action : {Undef, Str("")}, data : {Num(5)}, params : {Undef}]
    \cup [t : {"object"}, action : {Str(a) : a \in UserTopics}, data : InData, params : InParams]
    \cup [t : {"object"}, action : {Str(ResTopic(a)) : a \in ClientTopics}, data : InMsg,
           params : {Undef}]

\* const { action, data, params } = (event.data as PluginMessage) || {}
Destructure(event) ==
  IF Truthy(event) THEN event
  ELSE [t |-> "object", action |-> Undef, data |-> Undef, params |-> Undef]

\* the topic an envelope is dispatched on, "" when it has no action
ActionOf(event) ==
  IF Truthy(Destructure(event).action) THEN Destructure(event).action.v ELSE ""

-----------------------------------------------------------------------------
(* Arrays and Maps.                                                        *)

Range(arr) == {arr[i] : i \in 1..Len(arr)}

\* Array.prototype.indexOf: 1-based position of the first x, 0 when absent
IndexOf(arr, x) ==
  IF \E i \in 1..Len(arr) : arr[i] = x
    THEN CHOOSE i \in 1..Len(arr) : arr[i] = x /\ \A j \in 1..(i - 1) : arr[j] # x
    ELSE 0

\* arr.splice(i, 1)
Splice(arr, i) == [j \in 1..(Len(arr) - 1) |-> IF j < i THEN arr[j] ELSE arr[j + 1]]

\* const index = arr.indexOf(x); if (index > -1) arr.splice(index, 1);
RemoveFrom(arr, x) == IF IndexOf(arr, x) > 0 THEN Splice(arr, IndexOf(arr, x)) ELSE arr

\* FilterTopic gone wrong: find instead of filter, the first match only
FilterTopic_FirstOnly(arr, objs, action) ==
  LET onTopic == SelectSeq(arr, LAMBDA s : objs[s].topic = action)
  IN IF onTopic = << >> THEN << >> ELSE <<Head(onTopic)>>

\* FilterTopic gone wrong: the filter keeps every subscription
FilterTopic_KeepsAll(arr, objs, action) == arr

\* Array.prototype.filter on the topic
FilterTopic(arr, objs, action) == SelectSeq(arr, LAMBDA s : objs[s].topic = action)

\* new Map()
EmptyMap == [x \in {} |-> 0]
\* Map.prototype.has with a JavaScript value as the key (the keys are numbers)
MapHas(m, key) == key.t = "number" /\ key.v \in DOMAIN m
MapSet(m, k, v) == [x \in DOMAIN m \cup {k} |-> IF x = k THEN v ELSE m[x]]
MapDelete(m, k) == [x \in DOMAIN m \ {k} |-> m[x]]

\* a promise is << >> while pending and <<v>> once fulfilled with v;
\* resolving a settled promise changes nothing
Resolve(promise, v) == IF promise = << >> THEN <<v>> ELSE promise

-----------------------------------------------------------------------------
(* The state as one record, so that the methods are functions on it.       *)

St ==
  [subscriptions |-> subscriptions, publishers |-> publishers, clients |-> clients,
   services |-> services, listening |-> listening, subObj |-> subObj,
   pubObj |-> pubObj, cliObj |-> cliObj, svcObj |-> svcObj, calls |-> calls,
   posted |-> << >>, notified |-> << >>, teardown |-> << >>, errors |-> 0,
   exc |-> FALSE, sdkObj |-> sdkObj, pluginSDKInstance |-> pluginSDKInstance,
   held |-> held, inReplyTo |-> 0]

Commit(st) ==
  /\ subscriptions' = st.subscriptions
  /\ publishers' = st.publishers
  /\ clients' = st.clients
  /\ services' = st.services
  /\ listening' = st.listening
  /\ subObj' = st.subObj
  /\ pubObj' = st.pubObj
  /\ cliObj' = st.cliObj
  /\ svcObj' = st.svcObj
  /\ calls' = st.calls
  /\ posted' = st.posted
  /\ notified' = st.notified
  /\ teardown' = st.teardown
  /\ errors' = st.errors
  /\ escaped' = st.exc
  /\ sdkObj' = st.sdkObj
  /\ pluginSDKInstance' = st.pluginSDKInstance
  /\ held' = st.held
  /\ inReplyTo' = st.inReplyTo

\* catch (error) { console.error(...) }
Catch(st) == IF st.exc THEN [st EXCEPT !.exc = FALSE, !.errors = @ + 1] ELSE st

-----------------------------------------------------------------------------
(* Publisher.                                                              *)

\* new Publisher(node, topic): registers itself in node.publishers
PublisherNew(st, topic, owner) ==
  LET id == Len(st.pubObj) + 1 IN
  [st EXCEPT !.pubObj = Append(@, [topic |-> topic, owner |-> owner, destroys |-> 0]),
             !.publishers = Append(@, id)]

\* parent.postMessage({ action: this.topic, data: message }, '*')
PublisherPublish(st, p, message) ==
  [st EXCEPT !.posted = Append(@, [action |-> st.pubObj[p].topic, data |-> message])]

PublisherDestroy(st, p) ==
  [st EXCEPT !.pubObj[p].destroys = @ + 1,
             !.publishers = RemoveFrom(@, p)]

-----------------------------------------------------------------------------
(* Subscription. owner = 0: the callback is the application's; owner = c:  *)
(* the callback is the response callback of Client c.                      *)

SubscriptionNew(st, topic, owner) ==
  LET id == Len(st.subObj) + 1 IN
  [st EXCEPT !.subObj = Append(@, [topic |-> topic, owner |-> owner, destroys |-> 0]),
             !.subscriptions = Append(@, id)]

SubscriptionDestroy(st, s) ==
  [st EXCEPT !.subObj[s].destroys = @ + 1,
             !.subscriptions = RemoveFrom(@, s)]

-----------------------------------------------------------------------------
(* Service.                                                                *)

\* new Service(), or an instance of a subclass whose destroy() throws, pushed
\* on the public services array by the application
ServiceNew(st, throws) ==
  LET id == Len(st.svcObj) + 1 IN
  [st EXCEPT !.svcObj = Append(@, [throws |-> throws, destroys |-> 0]),
             !.services = Append(@, id)]

\* the base destroy() only logs; an overriding destroy() may throw
ServiceDestroy(st, v) ==
  [st EXCEPT !.svcObj[v].destroys = @ + 1, !.exc = st.svcObj[v].throws]

-----------------------------------------------------------------------------
(* Client.                                                                 *)

\* PromiseRace gone wrong: the timeout promise wins whenever it has settled
PromiseRace_TimeoutWins(call) ==
  IF call.timeoutPromise # << >> THEN call.timeoutPromise ELSE call.requestPromise

\* Promise.race([requestPromise, timeoutPromise]): the first one to settle
PromiseRace(call) ==
  IF call.race # << >> THEN call.race
  ELSE IF call.requestPromise # << >> THEN call.requestPromise
  ELSE call.timeoutPromise

\* the resolver stored in pendingRequests: (response) => { resolve(response) }
RequestResolver(call, response) ==
  LET settled == [call EXCEPT !.requestPromise = Resolve(@, response)]
  IN [settled EXCEPT !.race = PromiseRace(settled)]

\* resolve(null) of the timeout promise
TimeoutResolver(call) ==
  LET settled == [call EXCEPT !.timeoutPromise = Resolve(@, Null)]
  IN [settled EXCEPT !.race = PromiseRace(settled)]

\* constructor: push on node.clients, then create pubSrv and subSrv
ClientNew(st, topic) ==
  LET id == Len(st.cliObj) + 1
      s1 == [st EXCEPT !.clients = Append(@, id)]
      s2 == PublisherNew(s1, ReqTopic(topic), id)
      s3 == SubscriptionNew(s2, ResTopic(topic), id)
  IN [s3 EXCEPT !.cliObj = Append(@, [topic |-> topic, pubSrv |-> Len(s2.pubObj),
                                       subSrv |-> Len(s3.subObj), pending |-> EmptyMap,
                                       destroys |-> 0])]

\* ResponseCallback gone wrong: the whole table is cleared after resolving
ResponseCallback_ClearsTable(st, c, response) ==
  LET reqId == IF response.t = "object" THEN response.reqId ELSE Undef
      pend == st.cliObj[c].pending
  IN IF reqId.t # "undefined" /\ MapHas(pend, reqId)
       THEN [st EXCEPT !.calls[pend[reqId.v]] = RequestResolver(@, response.data),
                       !.cliObj[c].pending = EmptyMap]
       ELSE st

\* ResponseCallback gone wrong: the entry is not deleted after resolving
ResponseCallback_KeepsEntry(st, c, response) ==
  LET reqId == IF response.t = "object" THEN response.reqId ELSE Undef
      pend == st.cliObj[c].pending
  IN IF reqId.t # "undefined" /\ MapHas(pend, reqId)
       THEN [st EXCEPT !.calls[pend[reqId.v]] = RequestResolver(@, response.data)]
       ELSE st

\* ResponseCallback gone wrong: a response without a pending entry is handed to
\* the latest call that used the id
ResponseCallback_Resurrects(st, c, response) ==
  LET reqId == IF response.t = "object" THEN response.reqId ELSE Undef
      pend == st.cliObj[c].pending
      used == {k \in 1..Len(st.calls) :
                 reqId.t = "number" /\ st.calls[k].client = c /\ st.calls[k].reqId = reqId.v}
      last == CHOOSE k \in used : \A j \in used : j <= k
  IN IF reqId.t # "undefined" /\ MapHas(pend, reqId)
       THEN [st EXCEPT !.calls[pend[reqId.v]] = RequestResolver(@, response.data),
                       !.cliObj[c].pending = MapDelete(@, reqId.v)]
       ELSE IF used # {}
         THEN [st EXCEPT !.calls[last].race = <<response.data>>]
         ELSE st

\* the callback of subSrv
ResponseCallback(st, c, response) ==
  LET reqId == IF response.t = "object" THEN response.reqId ELSE Undef
      pend == st.cliObj[c].pending
  IN IF reqId.t # "undefined" /\ MapHas(pend, reqId)
       THEN [st EXCEPT !.calls[pend[reqId.v]] = RequestResolver(@, response.data),
                       !.cliObj[c].pending = MapDelete(@, reqId.v)]
       ELSE st

\* ClientSendRequest gone wrong: the request is published but no pending
\* entry is registered
ClientSendRequest_Unregistered(st, c, reqId, data, timeoutArg) ==
  LET k == Len(st.calls) + 1
      timeoutMs == IF timeoutArg = << >> THEN DefaultTimeoutMs ELSE timeoutArg[1]
      call == [client |-> c, reqId |-> reqId, data |-> data, timeoutMs |-> timeoutMs,
               timer |-> "none", requestPromise |-> << >>, timeoutPromise |-> << >>,
               race |-> << >>]
  IN IF reqId \in DOMAIN st.cliObj[c].pending
       THEN [st EXCEPT !.calls = Append(@, [call EXCEPT !.race = <<Null>>])]
       ELSE LET s2 == PublisherPublish(st, st.cliObj[c].pubSrv, Msg(Num(reqId), data))
            IN [s2 EXCEPT !.calls = Append(@, [call EXCEPT !.timer = "armed"])]

\* ClientSendRequest gone wrong: no duplicate check, the entry is overwritten
ClientSendRequest_Overwrites(st, c, reqId, data, timeoutArg) ==
  LET k == Len(st.calls) + 1
      timeoutMs == IF timeoutArg = << >> THEN DefaultTimeoutMs ELSE timeoutArg[1]
      call == [client |-> c, reqId |-> reqId, data |-> data, timeoutMs |-> timeoutMs,
               timer |-> "armed", requestPromise |-> << >>, timeoutPromise |-> << >>,
               race |-> << >>]
      s1 == [st EXCEPT !.cliObj[c].pending = MapSet(@, reqId, k)]
      s2 == PublisherPublish(s1, st.cliObj[c].pubSrv, Msg(Num(reqId), data))
  IN [s2 EXCEPT !.calls = Append(@, call)]

\* sendRequest(reqId, data, timeoutMs = 1000); the call gets the next call number
ClientSendRequest(st, c, reqId, data, timeoutArg) ==
  LET k == Len(st.calls) + 1
      timeoutMs == IF timeoutArg = << >> THEN DefaultTimeoutMs ELSE timeoutArg[1]
      call == [client |-> c, reqId |-> reqId, data |-> data, timeoutMs |-> timeoutMs,
               timer |-> "none", requestPromise |-> << >>, timeoutPromise |-> << >>,
               race |-> << >>]
  IN IF reqId \in DOMAIN st.cliObj[c].pending
       THEN [st EXCEPT !.calls = Append(@, [call EXCEPT !.race = <<Null>>])]
       ELSE LET s1 == [st EXCEPT !.cliObj[c].pending = MapSet(@, reqId, k)]
                s2 == PublisherPublish(s1, st.cliObj[c].pubSrv, Msg(Num(reqId), data))
            IN [s2 EXCEPT !.calls = Append(@, [call EXCEPT !.timer = "armed"])]

\* TimeoutCallback gone wrong: resolves null but leaves the entry in the table
TimeoutCallback_KeepsEntry(st, k) ==
  LET c == st.calls[k].client
      reqId == st.calls[k].reqId
      fired == [st EXCEPT !.calls[k].timer = "fired"]
  IN IF reqId \in DOMAIN st.cliObj[c].pending
       THEN [fired EXCEPT !.calls[k] = TimeoutResolver(@)]
       ELSE fired

\* the setTimeout callback of call k
TimeoutCallback(st, k) ==
  LET c == st.calls[k].client
      reqId == st.calls[k].reqId
      fired == [st EXCEPT !.calls[k].timer = "fired"]
  IN IF reqId \in DOMAIN st.cliObj[c].pending
       THEN [fired EXCEPT !.cliObj[c].pending = MapDelete(@, reqId),
                          !.calls[k] = TimeoutResolver(@)]
       ELSE fired

\* ClientDestroy gone wrong: the owned publisher stays registered
ClientDestroy_LeavesPublisher(st, c) ==
  LET s1 == [st EXCEPT !.cliObj[c].destroys = @ + 1,
                       !.clients = RemoveFrom(@, c)]
      s3 == SubscriptionDestroy(s1, st.cliObj[c].subSrv)
  IN [s3 EXCEPT !.cliObj[c].pending = EmptyMap]

\* ClientDestroy gone wrong: the pending table is not cleared
ClientDestroy_KeepsPending(st, c) ==
  LET s1 == [st EXCEPT !.cliObj[c].destroys = @ + 1,
                       !.clients = RemoveFrom(@, c)]
      s2 == PublisherDestroy(s1, st.cliObj[c].pubSrv)
  IN SubscriptionDestroy(s2, st.cliObj[c].subSrv)

ClientDestroy(st, c) ==
  LET s1 == [st EXCEPT !.cliObj[c].destroys = @ + 1,
                       !.clients = RemoveFrom(@, c)]
      s2 == PublisherDestroy(s1, st.cliObj[c].pubSrv)
      s3 == SubscriptionDestroy(s2, st.cliObj[c].subSrv)
  IN [s3 EXCEPT !.cliObj[c].pending = EmptyMap]

-----------------------------------------------------------------------------
(* PluginBus: dispatch.                                                    *)

\* what an application callback does when invoked: it returns at once, it
\* calls destroy() on Subscription sub and returns, or it throws
Return == [do |-> "return", sub |-> 0]
DestroySub(d) == [do |-> "destroy", sub |-> d]
Throw == [do |-> "throw", sub |-> 0]
UserCallback(st, s, data, b) ==
  CASE b.do = "return" -> st
    [] b.do = "destroy" -> SubscriptionDestroy(st, b.sub)
    [] b.do = "throw" -> [st EXCEPT !.exc = TRUE]

\* this.callback(data), logged as one invocation
Callback(st, s, data, beh) ==
  LET done == IF st.subObj[s].owner = 0
                THEN UserCallback(st, s, data, beh[s])
                ELSE ResponseCallback(st, st.subObj[s].owner, data)
      entry == [sub |-> s, data |-> data, destroyed |-> st.subObj[s].destroys > 0,
                threw |-> done.exc]
  IN [done EXCEPT !.notified = Append(@, entry)]

\* notify without its try/catch
SubscriptionNotify_NoCatch(st, s, data, beh) == Callback(st, s, data, beh)

\* notify(data): try { this.callback(data) } catch { log }
SubscriptionNotify(st, s, data, beh) == Catch(Callback(st, s, data, beh))

\* subscriptions.forEach((subscription) => subscription.notify(payload));
\* an exception that leaves notify ends the loop
RECURSIVE NotifyEach(_, _, _, _)
NotifyEach(st, subs, payload, beh) ==
  IF subs = << >> \/ st.exc THEN st
  ELSE NotifyEach(SubscriptionNotify(st, Head(subs), payload, beh), Tail(subs), payload, beh)

\* data || params
DataOrParams(event) == IF Truthy(event.data) THEN event.data ELSE event.params

\* MessageHandler gone wrong: no `|| {}`, so destructuring an absent message
\* raises a TypeError
MessageHandler_NoFallback(st, event, beh) ==
  IF ~Truthy(event) THEN [st EXCEPT !.exc = TRUE]
  ELSE IF ~Truthy(event.action) THEN st
  ELSE NotifyEach(st, FilterTopic(st.subscriptions, st.subObj, event.action.v),
                  DataOrParams(event), beh)

\* the window 'message' listener installed by the constructor
MessageHandler(st, event, beh) ==
  LET message == Destructure(event) IN
  IF ~Truthy(message.action) THEN st
  ELSE NotifyEach(st, FilterTopic(st.subscriptions, st.subObj, message.action.v),
                  DataOrParams(message), beh)

-----------------------------------------------------------------------------
(* PluginBus: teardown.                                                    *)

ArrayOf(st, kind) ==
  CASE kind = "subscriptions" -> st.subscriptions
    [] kind = "publishers" -> st.publishers
    [] kind = "clients" -> st.clients
    [] kind = "services" -> st.services

\* item.destroy() for an item of the given collection
ItemDestroy(st, kind, id) ==
  CASE kind = "subscriptions" -> SubscriptionDestroy(st, id)
    [] kind = "publishers" -> PublisherDestroy(st, id)
    [] kind = "clients" -> ClientDestroy(st, id)
    [] kind = "services" -> ServiceDestroy(st, id)

\* Truncate gone wrong: the array is not cleared
Truncate_Keeps(st, kind) == st

\* arr.length = 0
Truncate(st, kind) ==
  CASE kind = "subscriptions" -> [st EXCEPT !.subscriptions = << >>]
    [] kind = "publishers" -> [st EXCEPT !.publishers = << >>]
    [] kind = "clients" -> [st EXCEPT !.clients = << >>]
    [] kind = "services" -> [st EXCEPT !.services = << >>]

\* for (const item of arr) item.destroy(): the array iterator reads arr[i] and
\* arr.length afresh at every step, while destroy() splices the live array
\* try { item.destroy() } catch { log }
TryDestroy(st, kind, id) ==
  Catch(ItemDestroy([st EXCEPT !.teardown = Append(@, [kind |-> kind, id |-> id])], kind, id))

RECURSIVE DestroyLoop(_, _, _)
DestroyLoop(st, kind, i) ==
  IF i > Len(ArrayOf(st, kind)) THEN st
  ELSE DestroyLoop(TryDestroy(st, kind, ArrayOf(st, kind)[i]), kind, i + 1)

DestroyAll(st, kind) == Truncate(DestroyLoop(st, kind, 1), kind)

\* BusDestroy gone wrong: the listener is removed before the collections
\* are torn down
BusDestroy_ListenerFirst(st) ==
  LET s0 == [st EXCEPT !.listening = FALSE,
                       !.teardown = Append(@, [kind |-> "listener", id |-> 0])]
      s1 == DestroyAll(s0, "subscriptions")
      s2 == DestroyAll(s1, "publishers")
      s3 == DestroyAll(s2, "clients")
  IN DestroyAll(s3, "services")

BusDestroy(st) ==
  LET s1 == DestroyAll(st, "subscriptions")
      s2 == DestroyAll(s1, "publishers")
      s3 == DestroyAll(s2, "clients")
      s4 == DestroyAll(s3, "services")
  IN IF s4.listening
       THEN [s4 EXCEPT !.listening = FALSE,
                       !.teardown = Append(@, [kind |-> "listener", id |-> 0])]
       ELSE s4

-----------------------------------------------------------------------------
(* PluginSDK and the module's singleton.                                   *)

PLUGIN_SRV_PROPS == "PLUGINS_PROPS"
PLUGIN_SRV_URL == "PLUGINS_URL_PARAMS"
PLUGIN_TOPIC_URL == "PLUGINS_URL_PARAMS_SET"
PLUGIN_TOPIC_RESIZE_IFRAME == "PLUGINS_RESIZE_IFRAME"

\* new PluginBus(): empty collections, the message listener installed
PluginBusNew(st) ==
  [st EXCEPT !.subscriptions = << >>, !.publishers = << >>, !.clients = << >>,
             !.services = << >>, !.listening = TRUE]

\* new PluginSDK(): its own Bus, the height publisher, the ResizeObserver
\* (observing when document.body exists) and the initial report scheduled
\* (load listener or zero-delay timer). sent is the height published last.
PluginSDKNew(st, body) ==
  LET s1 == PublisherNew(PluginBusNew(st), PLUGIN_TOPIC_RESIZE_IFRAME, 0)
  IN [s1 EXCEPT !.sdkObj = Append(@, [pubHeight |-> Len(s1.pubObj), frmHeight |-> 0,
                                       observing |-> body, initial |-> "scheduled",
                                       sent |-> << >>, destroys |-> 0])]

\* _sendHeightToUpsunConsole(), with document.documentElement.scrollHeight = height
SendHeight(st, i, height) ==
  IF st.sdkObj[i].frmHeight = height THEN st
  ELSE PublisherPublish([st EXCEPT !.sdkObj[i].frmHeight = height,
                                   !.sdkObj[i].sent = <<height>>],
                        st.sdkObj[i].pubHeight, Num(height))

\* PluginSDK.destroy(): disconnect the observer, destroy pubHeight, destroy the Bus
PluginSDKDestroy(st, i) ==
  LET s1 == [st EXCEPT !.sdkObj[i].observing = FALSE, !.sdkObj[i].destroys = @ + 1]
  IN BusDestroy(PublisherDestroy(s1, st.sdkObj[i].pubHeight))

\* getUpsunContext() / getUrlParams() up to the await: createClient(topic),
\* then sendRequest(1, '*')
SdkRequest(st, topic) ==
  LET s1 == ClientNew(st, topic)
  IN ClientSendRequest(s1, Len(s1.cliObj), 1, Str("*"), << >>)

\* SdkSetUrlParams gone wrong: the throwaway publisher is not destroyed
SdkSetUrlParams_KeepsPublisher(st, params) ==
  LET s1 == PublisherNew(st, PLUGIN_TOPIC_URL, 0)
  IN PublisherPublish(s1, Len(s1.pubObj), params)

\* setUrlParams(params)
SdkSetUrlParams(st, params) ==
  LET s1 == PublisherNew(st, PLUGIN_TOPIC_URL, 0)
      pubUrl == Len(s1.pubObj)
  IN PublisherDestroy(PublisherPublish(s1, pubUrl, params), pubUrl)

\* GetPluginSDKFn gone wrong: a new instance on every call
GetPluginSDKFn_AlwaysNew(st, body) ==
  LET s1 == [PluginSDKNew(st, body) EXCEPT !.pluginSDKInstance = Len(st.sdkObj) + 1]
  IN [s1 EXCEPT !.held = s1.pluginSDKInstance]

\* getPluginSDK(); the application keeps what it returns
GetPluginSDKFn(st, body) ==
  LET s1 == IF st.pluginSDKInstance = 0
              THEN [PluginSDKNew(st, body) EXCEPT !.pluginSDKInstance = Len(st.sdkObj) + 1]
              ELSE st
  IN [s1 EXCEPT !.held = s1.pluginSDKInstance]

\* destroyPluginSDK()
DestroyPluginSDKFn(st) ==
  IF st.pluginSDKInstance # 0
    THEN [PluginSDKDestroy(st, st.pluginSDKInstance) EXCEPT !.pluginSDKInstance = 0]
    ELSE st

-----------------------------------------------------------------------------
(* The actions: what the application, the host frame and the timers do.    *)

UserSubs == {s \in 1..Len(subObj) : subObj[s].owner = 0}
UserPubs == {p \in 1..Len(pubObj) : pubObj[p].owner = 0}
Ops == Cardinality(UserSubs) + Cardinality(UserPubs) + Len(cliObj) + Len(svcObj) + Len(calls)

\* topics and request ids are interchangeable names: the application takes
\* each into use in a fixed order
TopicsInUse == {subObj[s].topic : s \in UserSubs}
FreshTopic(topic) == topic = "T" \/ "T" \in TopicsInUse
IdsInUse(c) == {calls[k].reqId : k \in {j \in 1..Len(calls) : calls[j].client = c}}
FreshId(c, reqId) == \A i \in 1..(reqId - 1) : i \in IdsInUse(c)
PublishData == {Num(1)}

Init ==
  /\ subscriptions = << >>
  /\ publishers = << >>
  /\ clients = << >>
  /\ services = << >>
  /\ listening = TRUE
  /\ subObj = << >>
  /\ pubObj = << >>
  /\ cliObj = << >>
  /\ svcObj = << >>
  /\ calls = << >>
  /\ posted = << >>
  /\ notified = << >>
  /\ teardown = << >>
  /\ errors = 0
  /\ escaped = FALSE
  /\ sdkObj = << >>
  /\ pluginSDKInstance = 0
  /\ held = 0
  /\ inReplyTo = 0

CreateSubscription(topic) ==
  /\ listening /\ Ops < MaxOps /\ FreshTopic(topic)
  /\ Commit(SubscriptionNew(St, topic, 0))

CreatePublisher(topic) ==
  /\ listening /\ Ops < MaxOps
  /\ Commit(PublisherNew(St, topic, 0))

CreateClient(topic) ==
  /\ listening /\ Ops < MaxOps
  /\ Commit(ClientNew(St, topic))

RegisterService(throws) ==
  /\ listening /\ Ops < MaxOps
  /\ Commit(ServiceNew(St, throws))

Publish(p, message) ==
  /\ listening /\ pubObj[p].destroys = 0
  /\ Commit(PublisherPublish(St, p, message))

DestroySubscription(s) ==
  /\ listening /\ subObj[s].destroys = 0
  /\ Commit(SubscriptionDestroy(St, s))

DestroyPublisher(p) ==
  /\ listening /\ pubObj[p].destroys = 0
  /\ Commit(PublisherDestroy(St, p))

DestroyClient(c) ==
  /\ listening /\ cliObj[c].destroys = 0
  /\ Commit(ClientDestroy(St, c))

SendRequest(c, reqId, data, timeoutArg) ==
  /\ listening /\ cliObj[c].destroys = 0 /\ Ops < MaxOps /\ FreshId(c, reqId)
  /\ Commit(ClientSendRequest(St, c, reqId, data, timeoutArg))

\* what the application callbacks do while one envelope is dispatched: all
\* return at once, or one of those the envelope reaches (s) calls destroy()
\* on a subscription (d) that is registered when the envelope arrives, or
\* one of those the envelope reaches throws
Quiet == [s \in UserSubs |-> Return]
Reached(event) ==
  {s \in UserSubs \cap Range(subscriptions) : subObj[s].topic = ActionOf(event)}
Behaviours(event) ==
  {Quiet}
    \cup {[Quiet EXCEPT ![s] = DestroySub(d)] : s \in Reached(event),
                                                d \in UserSubs \cap Range(subscriptions)}
    \cup {[Quiet EXCEPT ![s] = Throw] : s \in Reached(event)}

\* the requests a response envelope of the host frame can be the answer to:
\* those published on the matching _REQ topic with the envelope's reqId and
\* not answered yet; 0 when there is none
Answerable(event) ==
  LET message == Destructure(event)
      asked == {k \in 1..Len(calls) :
                  /\ calls[k].timer # "none" /\ calls[k].requestPromise = << >>
                  /\ ResTopic(cliObj[calls[k].client].topic) = ActionOf(event)
                  /\ message.data.t = "object"
                  /\ message.data.reqId = Num(calls[k].reqId)}
  IN IF asked = {} THEN {0} ELSE asked

\* the host frame posts an envelope, a response in reply to request re; the
\* application callbacks it reaches behave as beh says
Receive(event) ==
  /\ listening
  /\ \E beh \in Behaviours(event), re \in Answerable(event) :
       Commit([MessageHandler(St, event, beh) EXCEPT !.inReplyTo = re])

\* a timer set earlier with a delay no longer than another's fires first
TimerDue(k) ==
  /\ calls[k].timer = "armed"
  /\ \A j \in 1..(k - 1) :
       calls[j].timer = "armed" => calls[j].timeoutMs > calls[k].timeoutMs

Timeout(k) ==
  /\ TimerDue(k)
  /\ Commit(TimeoutCallback(St, k))

DestroyBus ==
  /\ listening
  /\ Commit(BusDestroy(St))

Next ==
  \/ \E topic \in UserTopics : CreateSubscription(topic)
  \/ \E topic \in PublishTopics : CreatePublisher(topic)
  \/ \E topic \in ClientTopics : CreateClient(topic)
  \/ \E throws \in BOOLEAN : RegisterService(throws)
  \/ \E p \in UserPubs, message \in PublishData : Publish(p, message)
  \/ \E s \in UserSubs : DestroySubscription(s)
  \/ \E p \in UserPubs : DestroyPublisher(p)
  \/ \E c \in 1..Len(cliObj) : DestroyClient(c)
  \/ \E c \in 1..Len(cliObj), reqId \in ReqIds, data \in RequestData, timeoutArg \in TimeoutArgs :
       SendRequest(c, reqId, data, timeoutArg)
  \/ \E event \in Envelopes : Receive(event)
  \/ \E k \in 1..Len(calls) : Timeout(k)
  \/ DestroyBus

Spec == Init /\ [][Next]_vars

-----------------------------------------------------------------------------
(* The application working through the PluginSDK singleton.                *)

\* document.documentElement.scrollHeight
Heights == {0, 600}
\* document.body exists when the application asks for the SDK
BodyPresent == {TRUE}
UrlParams == {Str("tab=1")}

\* PluginSDK instances constructed plus calls of getUpsunContext,
\* getUrlParams and setUrlParams, bounded by MaxOps
UrlPubs == {p \in 1..Len(pubObj) : pubObj[p].topic = PLUGIN_TOPIC_URL}
SdkOps == Len(sdkObj) + Len(cliObj) + Cardinality(UrlPubs)

\* what the host frame may post to a plugin that uses the facade only
SdkEnvelopes ==
  {Undef}
    \cup [t : {"object"}, action : {Str(ResTopic(PLUGIN_SRV_PROPS)), Str(ResTopic(PLUGIN_SRV_URL))},
           data : {Msg(Num(1), r) : r \in ResponseData}, params : {Undef}]

\* const sdk = getPluginSDK(), document.body present or not
GetPluginSDK(body) ==
  /\ pluginSDKInstance # 0 \/ SdkOps < MaxOps
  /\ Commit(GetPluginSDKFn(St, body))

DestroyPluginSDK ==
  /\ Commit(DestroyPluginSDKFn(St))

\* sdk.destroy() on the instance the application holds (App.vue, onUnmounted)
SdkDestroy ==
  /\ held # 0 /\ sdkObj[held].destroys = 0
  /\ Commit(PluginSDKDestroy(St, held))

\* the ResizeObserver callback of instance i runs
ResizeObserved(i, height) ==
  /\ sdkObj[i].observing
  /\ Commit(SendHeight(St, i, height))

\* the load listener or zero-delay timer set by the constructor of i runs
InitialReport(i, height) ==
  /\ sdkObj[i].initial = "scheduled"
  /\ Commit(SendHeight([St EXCEPT !.sdkObj[i].initial = "done"], i, height))

GetUpsunContext ==
  /\ held # 0 /\ SdkOps < MaxOps
  /\ Commit(SdkRequest(St, PLUGIN_SRV_PROPS))

GetUrlParams ==
  /\ held # 0 /\ SdkOps < MaxOps
  /\ Commit(SdkRequest(St, PLUGIN_SRV_URL))

SetUrlParams(params) ==
  /\ held # 0 /\ SdkOps < MaxOps
  /\ Commit(SdkSetUrlParams(St, params))

SdkNext ==
  \/ \E body \in BodyPresent : GetPluginSDK(body)
  \/ DestroyPluginSDK
  \/ SdkDestroy
  \/ \E i \in 1..Len(sdkObj), height \in Heights : ResizeObserved(i, height)
  \/ \E i \in 1..Len(sdkObj), height \in Heights : InitialReport(i, height)
  \/ GetUpsunContext
  \/ GetUrlParams
  \/ \E params \in UrlParams : SetUrlParams(params)
  \/ \E event \in SdkEnvelopes : Receive(event)
  \/ \E k \in 1..Len(calls) : Timeout(k)

SdkSpec == Init /\ [][SdkNext]_vars

-----------------------------------------------------------------------------
(* Vocabulary of the properties.                                           *)

Calls == 1..Len(calls)
Clients == 1..Len(cliObj)
PendingOf(c) == cliObj[c].pending
\* the step fires the timer of call k
TimerFires(k) == calls[k].timer = "armed" /\ calls'[k].timer = "fired"
\* the step is a sendRequest call (it gets call number Len(calls) + 1)
SendStep == Len(calls') = Len(calls) + 1
\* the step is PluginBus.destroy()
BusDestroyStep == listening /\ ~listening'
\* the outcome of every call made so far is what it was
OutcomesKept == \A k \in Calls : calls'[k].race = calls[k].race
\* the response envelope {reqId: id, data: r} on the _RES topic of client c
ResponseTo(c, id, r) ==
  [t |-> "object", action |-> Str(ResTopic(cliObj[c].topic)), data |-> Msg(Num(id), r),
   params |-> Undef]

-----------------------------------------------------------------------------
(* C1: a timer that fires after its own request was resolved by a response *)
(* changes neither any pending table nor the outcome of any call, also     *)
(* when the id has been reused by a new request in the meantime.           *)
C1_StaleTimerIsNoOp ==
  [][\A k \in Calls :
       (TimerFires(k) /\ calls[k].requestPromise # << >>)
         => /\ \A c \in Clients : PendingOf(c)' = PendingOf(c)
            /\ OutcomesKept]_vars

(* C2: on a Client that was not destroyed, a call whose own timer has      *)
(* fired is resolved (with a payload or with null).                        *)
C2_ResolvedOnceOwnTimerFired ==
  \A k \in Calls :
    (calls[k].timer = "fired" /\ cliObj[calls[k].client].destroys = 0)
      => calls[k].race # << >>

(* C3: no callback runs for a Subscription whose destroy() was called      *)
(* before, also when destroy() was called while the envelope was being     *)
(* dispatched.                                                             *)
C3_NoNotifyAfterDestroy ==
  \A i \in 1..Len(notified) : ~notified[i].destroyed

(* C4: PluginBus.destroy() calls destroy() exactly once on every           *)
(* Subscription, Publisher, Client and Service registered when it starts.  *)
C4_EachMemberDestroyedOnce ==
  [][BusDestroyStep =>
       /\ \A s \in Range(subscriptions) : subObj'[s].destroys = subObj[s].destroys + 1
       /\ \A p \in Range(publishers) : pubObj'[p].destroys = pubObj[p].destroys + 1
       /\ \A c \in Range(clients) : cliObj'[c].destroys = cliObj[c].destroys + 1
       /\ \A v \in Range(services) : svcObj'[v].destroys = svcObj[v].destroys + 1]_vars

(* C5: when a response {reqId: id, data: R} is delivered on the Client's   *)
(* _RES topic while the table holds a pending entry for id (so the timer   *)
(* of that request has not fired), the call that owns the entry resolves   *)
(* with R and id is absent from the table right after the delivery.        *)
(* Stated of the handler run on the response in every reachable state of  *)
(* a listening Bus.                                                        *)
C5_ResponseResolvesPending ==
  listening =>
    \A c \in Clients, r \in ResponseData :
      \A id \in DOMAIN PendingOf(c) :
        LET after == MessageHandler(St, ResponseTo(c, id, r), Quiet)
        IN /\ ResponseTo(c, id, r) \in Envelopes
           /\ calls[PendingOf(c)[id]].timer = "armed"
           /\ after.calls[PendingOf(c)[id]].race = <<r>>
           /\ id \notin DOMAIN after.cliObj[c].pending

C5_Witness ==
  \E k \in Calls :
    /\ calls[k].race \in {<<r>> : r \in ResponseData}
    /\ calls[k].timer = "armed"
    /\ calls[k].reqId \notin DOMAIN PendingOf(calls[k].client)
    /\ \E i \in 1..Len(notified) : notified[i].sub = cliObj[calls[k].client].subSrv

(* C6: when the timer of a request fires while its entry is still in the   *)
(* table (no matching response came first), the call resolves to null, the *)
(* entry is removed, and a sendRequest with the same id made right         *)
(* afterwards is registered and published as a fresh request.              *)
C6_TimeoutResolvesNullAndFreesId ==
  [][\A k \in Calls :
       LET c == calls[k].client
           id == calls[k].reqId
           fresh == Len(calls') + 1
       IN (TimerFires(k) /\ id \in DOMAIN PendingOf(c) /\ PendingOf(c)[id] = k)
            => /\ calls'[k].race = <<Null>>
               /\ id \notin DOMAIN PendingOf(c)'
               /\ \A data \in RequestData, timeoutArg \in TimeoutArgs :
                    LET after == ClientSendRequest(St', c, id, data, timeoutArg)
                    IN /\ id \in DOMAIN after.cliObj[c].pending
                       /\ after.cliObj[c].pending[id] = fresh
                       /\ after.calls[fresh].timer = "armed"
                       /\ after.calls[fresh].race = << >>
                       /\ after.posted = <<[action |-> ReqTopic(cliObj[c].topic),
                                            data |-> Msg(Num(id), data)]>>]_vars

C6_Witness ==
  \E k \in Calls, j \in Calls :
    /\ k < j
    /\ calls[j].client = calls[k].client /\ calls[j].reqId = calls[k].reqId
    /\ calls[k].timer = "fired" /\ calls[k].timeoutPromise = <<Null>>
    /\ calls[k].race = <<Null>>
    /\ calls[j].reqId \in DOMAIN PendingOf(calls[j].client)
    /\ PendingOf(calls[j].client)[calls[j].reqId] = j
    /\ calls[j].timer = "armed"

(* C7: a sendRequest whose id is in the pending table resolves to null at  *)
(* once and leaves the first request as it was: the table is unchanged,    *)
(* nothing is posted, no timer is started, and the first call still        *)
(* resolves with its own response or its own timeout.                      *)
C7_DuplicateLeavesFirstUntouched ==
  [][LET new == calls'[Len(calls) + 1]
         c == new.client
         first == PendingOf(c)[new.reqId]
     IN (SendStep /\ new.reqId \in DOMAIN PendingOf(c))
          => /\ new.race = <<Null>> /\ new.timer = "none"
             /\ posted' = << >>
             /\ cliObj' = cliObj
             /\ \A k \in Calls : calls'[k] = calls[k]
             /\ calls'[first].timer = "armed" /\ calls'[first].race = << >>
             /\ \A r \in ResponseData :
                  ResponseCallback(St', c, Msg(Num(new.reqId), r)).calls[first].race = <<r>>
             /\ TimeoutCallback(St', first).calls[first].race = <<Null>>]_vars

C7_Witness ==
  \E j \in Calls :
    LET k == Len(calls) IN
      /\ j < k
      /\ calls[j].client = calls[k].client /\ calls[j].reqId = calls[k].reqId
      /\ calls[k].timer = "none" /\ calls[k].race = <<Null>>
      /\ calls[j].timer = "armed" /\ calls[j].race = << >>
      /\ calls[j].reqId \in DOMAIN PendingOf(calls[j].client)
      /\ PendingOf(calls[j].client)[calls[j].reqId] = j
      /\ posted = << >>

C10_FanOutInCreationOrder ==
  listening =>
    \A event \in Envelopes :
      ActionOf(event) # "" =>
        \A beh \in Behaviours(event) :
          LET onTopic == {s \in Range(subscriptions) : subObj[s].topic = ActionOf(event)}
              log == MessageHandler(St, event, beh).notified
              n == Len(log)
          IN /\ {log[i].sub : i \in 1..n} = onTopic
             /\ \A i \in 1..n, j \in 1..n : i < j => log[i].sub < log[j].sub
             /\ \A i \in 1..n : log[i].data = log[1].data

C10_Witness ==
  /\ Len(notified) >= 2
  /\ \E s \in Range(subscriptions) : subObj[s].topic # subObj[notified[1].sub].topic

(* C11: after PluginBus.destroy() has run, the four collections are empty  *)
(* and the message listener is removed, whatever the collections held and  *)
(* also when the destroy() of a child threw.                               *)
C11_DestroyLeavesBusEmpty ==
  teardown # << >> =>
    /\ subscriptions = << >> /\ publishers = << >>
    /\ clients = << >> /\ services = << >>
    /\ ~listening
    /\ ~escaped

C11_Witness ==
  /\ ~listening /\ errors > 0
  /\ \E i \in 1..Len(teardown) : teardown[i].kind = "subscriptions"
  /\ \E i \in 1..Len(teardown) :
       teardown[i].kind = "services" /\ svcObj[teardown[i].id].throws
  /\ publishers = << >> /\ clients = << >>

\* the place of a collection in the teardown
Rank(kind) ==
  CASE kind = "subscriptions" -> 1
    [] kind = "publishers" -> 2
    [] kind = "clients" -> 3
    [] kind = "services" -> 4
    [] kind = "listener" -> 5

(* C12: PluginBus.destroy() works through Subscriptions, Publishers,       *)
(* Clients, Services in this order and removes the listener last, once;    *)
(* and once it has run, no envelope reaches a subscription callback.       *)
C12_TeardownOrder ==
  /\ \A i \in 1..Len(teardown), j \in 1..Len(teardown) :
       i < j => Rank(teardown[i].kind) <= Rank(teardown[j].kind) /\ teardown[i].kind # "listener"
  /\ teardown # << >> => teardown[Len(teardown)].kind = "listener"
  /\ ~listening =>
       /\ notified = << >>
       /\ \A event \in Envelopes : MessageHandler(St, event, Quiet).notified = << >>

C12_Witness ==
  /\ ~listening
  /\ \A kind \in {"subscriptions", "publishers", "clients", "services", "listener"} :
       \E i \in 1..Len(teardown) : teardown[i].kind = kind

(* C13: a call that is unresolved on a Client whose destroy() has run      *)
(* stays unresolved, whatever response or timer comes later.               *)
C13_NoResolveAfterClientDestroy ==
  [][\A k \in Calls :
       (calls[k].race = << >> /\ cliObj[calls[k].client].destroys > 0)
         => calls'[k].race = << >>]_vars

C13_Witness ==
  \E k \in Calls :
    /\ cliObj[calls[k].client].destroys > 0
    /\ calls[k].timer = "fired"
    /\ calls[k].race = << >>
    /\ listening

(* C14: the timer of a sendRequest call runs for the default period, both  *)
(* when timeoutMs is omitted and when it is 0.                             *)
C14_ZeroTimeoutUsesDefault ==
  \A k \in Calls : calls[k].timer # "none" => calls[k].timeoutMs = DefaultTimeoutMs

\* one envelope for each topic the host frame posts on
OnePerTopic ==
  {e \in Envelopes : ActionOf(e) # "" /\ Destructure(e).data \in {Num(5), Msg(Num(1), Num(7))}}

(* C15: when a subscriber callback throws during a dispatch, the exception *)
(* is caught and logged and does not leave the dispatch; every             *)
(* subscription on the topic is notified for that envelope, the Bus is as  *)
(* it would be had the callback returned, and an envelope delivered next   *)
(* (on any topic) reaches every subscription on its topic.                 *)
C15_ThrowingCallbackIsContained ==
  listening =>
    \A event \in Envelopes :
      \A beh \in {[Quiet EXCEPT ![s] = Throw] : s \in Reached(event)} :
        LET onTopic(a) == {s \in Range(subscriptions) : subObj[s].topic = a}
            after == MessageHandler(St, event, beh)
            log == after.notified
            next == [after EXCEPT !.notified = << >>, !.errors = 0]
        IN /\ ~after.exc /\ after.errors = 1
           /\ {log[i].sub : i \in 1..Len(log)} = onTopic(ActionOf(event))
           /\ Cardinality({i \in 1..Len(log) : log[i].threw}) = 1
           /\ [after EXCEPT !.errors = 0, !.notified = << >>] = St
           /\ \A later \in OnePerTopic :
                LET log2 == MessageHandler(next, later, Quiet).notified
                IN {log2[i].sub : i \in 1..Len(log2)} = onTopic(ActionOf(later))

C15_Witness ==
  /\ Len(notified) >= 2
  /\ notified[1].threw /\ ~notified[2].threw
  /\ errors = 1 /\ ~escaped /\ listening

(* C16: a subscription is invoked with the envelope's data whenever the    *)
(* envelope has a data (whatever its value), with params only otherwise.   *)
C16_DataWhenPresent ==
  listening =>
    \A event \in Envelopes :
      LET log == MessageHandler(St, event, Quiet).notified
          message == Destructure(event)
      IN \A i \in 1..Len(log) :
           log[i].data = IF message.data # Undef THEN message.data ELSE message.params

(* C17: an envelope without action (no message, action missing or empty)   *)
(* is discarded: the handler invokes no callback, raises nothing and       *)
(* leaves the collections and every pending table as they are.             *)
C17_NoActionDiscarded ==
  listening =>
    \A event \in Envelopes :
      ActionOf(event) = "" =>
        \A beh \in Behaviours(event) : MessageHandler(St, event, beh) = St

C17_Witness ==
  /\ listening
  /\ \E s \in UserSubs : s \in Range(subscriptions)
  /\ \E c \in Clients : DOMAIN PendingOf(c) # {}
  /\ {MessageHandler(St, event, Quiet) : event \in {e \in Envelopes : ActionOf(e) = ""}} = {St}

\* the step is an observation of height by PluginSDK i: the ResizeObserver
\* callback or the initial report
Observation(i, height) == ResizeObserved(i, height) \/ InitialReport(i, height)

(* C18: a size-report is published for an observation exactly when the     *)
(* observed value differs from the value sent last (so of two equal        *)
(* observations in a row the first is published when it is new and the     *)
(* second never), for every value, 0 and the first observations after      *)
(* construction included.                                                  *)
C18_PublishedIffDiffersFromLastSent ==
  [][\A i \in 1..Len(sdkObj), height \in Heights :
       Observation(i, height) =>
         posted' = IF sdkObj[i].sent # <<height>>
                     THEN <<[action |-> PLUGIN_TOPIC_RESIZE_IFRAME, data |-> Num(height)]>>
                     ELSE << >>]_vars

(* C19: setUrlParams(params) posts exactly one envelope {action: the URL   *)
(* topic, data: params}; when it returns its publisher is not in the       *)
(* publishers collection, and the collections, the listener and every      *)
(* pending table are as they were.                                         *)
C19_SetUrlParamsLeavesNoTrace ==
  [][\A params \in UrlParams :
       SetUrlParams(params) =>
         /\ posted' = <<[action |-> PLUGIN_TOPIC_URL, data |-> params]>>
         /\ Len(pubObj') \notin Range(publishers')
         /\ publishers' = publishers /\ subscriptions' = subscriptions
         /\ clients' = clients /\ services' = services /\ listening' = listening
         /\ cliObj' = cliObj /\ calls' = calls
         /\ ~escaped']_vars

C19_Witness ==
  /\ Len(posted) = 1 /\ posted[1].action = PLUGIN_TOPIC_URL
  /\ publishers # << >> /\ listening
  /\ \E c \in Clients : DOMAIN PendingOf(c) # {}

(* C20: getPluginSDK() returns the live singleton as it is while there is  *)
(* one, and constructs a fresh instance when there is none;                *)
(* destroyPluginSDK() destroys the singleton and clears it, and changes    *)
(* nothing when there is none.                                             *)
(* Stated of the two functions called in every reachable state.            *)
C20_SingletonLifecycle ==
  /\ \A body \in BodyPresent :
       LET got == GetPluginSDKFn(St, body)
       IN IF pluginSDKInstance # 0
            THEN got = [St EXCEPT !.held = pluginSDKInstance]
            ELSE /\ got.held = Len(sdkObj) + 1 /\ got.pluginSDKInstance = got.held
                 /\ Len(got.sdkObj) = Len(sdkObj) + 1
                 /\ got.sdkObj[got.held].destroys = 0
                 /\ \A i \in 1..Len(sdkObj) : got.sdkObj[i] = sdkObj[i]
                 /\ got.listening
  /\ LET gone == DestroyPluginSDKFn(St)
     IN IF pluginSDKInstance # 0
          THEN /\ gone.sdkObj[pluginSDKInstance].destroys =
                    sdkObj[pluginSDKInstance].destroys + 1
               /\ gone.pluginSDKInstance = 0
               /\ ~gone.listening
               /\ GetPluginSDKFn(gone, TRUE).held = Len(sdkObj) + 1
          ELSE gone = St

C20_Witness ==
  /\ Len(sdkObj) = 2
  /\ sdkObj[1].destroys = 1 /\ sdkObj[2].destroys = 0
  /\ pluginSDKInstance = 2 /\ held = 2
  /\ listening

\* the step is a run of PluginBus.destroy() that found something to tear down
TeardownStep == teardown' # << >>

(* C21: when PluginBus.destroy() runs on a Bus that owns two or more        *)
(* Clients, each with a pending request, every one of those Clients has an *)
(* empty pending table afterwards and none of their unresolved calls is    *)
(* resolved by a response or by its own timer that comes next.             *)
C21_BusDestroyCancelsEveryClient ==
  [][(TeardownStep /\ Cardinality({c \in Range(clients) : PendingOf(c) # EmptyMap}) >= 2)
       => \A c \in Range(clients) :
            /\ PendingOf(c)' = EmptyMap
            /\ \A k \in Calls :
                 (calls[k].client = c /\ calls[k].race = << >>)
                   => /\ TimeoutCallback(St', k).calls[k].race = << >>
                      /\ \A r \in ResponseData :
                           MessageHandler(St', ResponseTo(c, calls[k].reqId, r),
                                          Quiet).calls[k].race = << >>]_vars

(* C22: a sendRequest call is resolved only with the payload of an         *)
(* envelope the host frame sent in reply to that same call, also when its  *)
(* id was used before by a request that timed out.                         *)
C22_ResolvedByOwnReplyOnly ==
  [][\A k \in Calls :
       (calls[k].requestPromise = << >> /\ calls'[k].requestPromise # << >>)
         => inReplyTo' = k]_vars

(* C23: on a Client whose destroy() has not run, the ids in the pending    *)
(* table are at every moment exactly the ids of the Client's sendRequest   *)
(* calls that were sent and are not resolved yet.                          *)
C23_PendingIsSentAndUnresolved ==
  \A c \in Clients :
    cliObj[c].destroys = 0 =>
      DOMAIN PendingOf(c) =
        {calls[k].reqId : k \in {j \in Calls : /\ calls[j].client = c
                                               /\ calls[j].timer # "none"
                                               /\ calls[j].race = << >>}}

\* the _REQ topics of the Clients constructed so far
RequestTopics == {ReqTopic(cliObj[c].topic) : c \in Clients}

(* C24: a sendRequest(id, payload) whose id is not pending registers the   *)
(* entry for id and posts exactly one envelope {action: topic_REQ, data:   *)
(* {reqId: id, data: payload}}; the entry is there when the call returns,  *)
(* so a response delivered next resolves the call; and no other step posts *)
(* an envelope on a _REQ topic.                                            *)
C24_RegisteredAndPublishedOnce ==
  [][LET k == Len(calls) + 1
         new == calls'[k]
         c == new.client
         id == new.reqId
     IN IF SendStep
          THEN id \notin DOMAIN PendingOf(c) =>
                 /\ id \in DOMAIN cliObj'[c].pending /\ cliObj'[c].pending[id] = k
                 /\ posted' = <<[action |-> ReqTopic(cliObj[c].topic),
                                 data |-> Msg(Num(id), new.data)]>>
                 /\ \A r \in ResponseData :
                      MessageHandler(St', ResponseTo(c, id, r), Quiet).calls[k].race = <<r>>
          ELSE \A i \in 1..Len(posted') : posted'[i].action \notin RequestTopics]_vars

C24_Witness ==
  LET k == Len(calls) IN
    /\ k >= 1
    /\ calls[k].timer = "armed" /\ calls[k].race = << >>
    /\ PendingOf(calls[k].client) = (calls[k].reqId :> k)
    /\ posted = <<[action |-> ReqTopic(cliObj[calls[k].client].topic),
                   data |-> Msg(Num(calls[k].reqId), calls[k].data)]>>

(* C25: a response delivered on a Client's _RES topic resolves only the    *)
(* call whose pending entry has the response's reqId and removes only that *)
(* entry; every other pending call of the Client and its entry are as they *)
(* were; a response whose reqId is missing or has no pending entry leaves  *)
(* the Client and its calls as they were.                                  *)
(* Stated of the handler run on the response in every reachable state of  *)
(* a listening Bus.                                                        *)
C25_ResponseTouchesOnlyItsEntry ==
  listening =>
    \A c \in Clients, data \in InMsg :
      LET event == [t |-> "object", action |-> Str(ResTopic(cliObj[c].topic)),
                    data |-> data, params |-> Undef]
          after == MessageHandler(St, event, Quiet)
          hit == IF data.t = "object" /\ MapHas(PendingOf(c), data.reqId)
                   THEN {data.reqId.v} ELSE {}
      IN /\ event \in Envelopes
         /\ DOMAIN after.cliObj[c].pending = DOMAIN PendingOf(c) \ hit
         /\ \A id \in DOMAIN after.cliObj[c].pending :
              after.cliObj[c].pending[id] = PendingOf(c)[id]
         /\ \A k \in Calls :
              calls[k].client = c =>
                IF \E id \in hit : PendingOf(c)[id] = k
                  THEN after.calls[k].race = <<data.data>>
                  ELSE after.calls[k] = calls[k]
         /\ hit = {} => after.cliObj[c] = cliObj[c]

C25_Witness ==
  \E k \in Calls, j \in Calls :
    /\ calls[k].client = calls[j].client /\ calls[k].reqId # calls[j].reqId
    /\ calls[k].race \in {<<r>> : r \in ResponseData}
    /\ calls[j].race = << >> /\ calls[j].timer = "armed"
    /\ PendingOf(calls[j].client) = (calls[j].reqId :> j)
    /\ inReplyTo = k
    /\ \E i \in 1..Len(notified) : notified[i].sub = cliObj[calls[k].client].subSrv

\* arr without x, the others in their order
Without(arr, x) == SelectSeq(arr, LAMBDA y : y # x)

(* C26: creating a Client on base topic T appends exactly one Client, one  *)
(* Publisher on T_REQ and one Subscription on T_RES to the collections of  *)
(* the Bus; Client.destroy() removes exactly those three from the          *)
(* collections and empties the Client's pending table, raises nothing when *)
(* requests are pending, and leaves every other Publisher, Subscription    *)
(* and Client, and their order, as they were.                              *)
(* Stated of the constructor and of destroy() called in every reachable    *)
(* state of a listening Bus.                                               *)
C26_ClientOwnsExactlyThree ==
  listening =>
    /\ \A topic \in ClientTopics :
         LET new == ClientNew(St, topic)
             c == Len(cliObj) + 1
             p == Len(pubObj) + 1
             s == Len(subObj) + 1
         IN /\ new.clients = Append(clients, c)
            /\ new.publishers = Append(publishers, p)
            /\ new.subscriptions = Append(subscriptions, s)
            /\ new.services = services
            /\ new.cliObj = Append(cliObj, [topic |-> topic, pubSrv |-> p, subSrv |-> s,
                                             pending |-> EmptyMap, destroys |-> 0])
            /\ new.pubObj = Append(pubObj, [topic |-> ReqTopic(topic), owner |-> c,
                                             destroys |-> 0])
            /\ new.subObj = Append(subObj, [topic |-> ResTopic(topic), owner |-> c,
                                             destroys |-> 0])
    /\ \A c \in Range(clients) :
         LET gone == ClientDestroy(St, c) IN
           /\ gone.clients = Without(clients, c)
           /\ gone.publishers = Without(publishers, cliObj[c].pubSrv)
           /\ gone.subscriptions = Without(subscriptions, cliObj[c].subSrv)
           /\ gone.services = services
           /\ gone.cliObj[c].pending = EmptyMap
           /\ ~gone.exc
           /\ gone.calls = calls
           /\ \A d \in Clients \ {c} : gone.cliObj[d] = cliObj[d]
           /\ \A p \in 1..Len(pubObj) : p # cliObj[c].pubSrv => gone.pubObj[p] = pubObj[p]
           /\ \A s \in 1..Len(subObj) : s # cliObj[c].subSrv => gone.subObj[s] = subObj[s]

C26_Witness ==
  \E c \in Clients :
    /\ listening /\ cliObj[c].destroys = 1
    /\ c \notin Range(clients)
    /\ cliObj[c].pubSrv \notin Range(publishers)
    /\ cliObj[c].subSrv \notin Range(subscriptions)
    /\ PendingOf(c) = EmptyMap
    /\ \E k \in Calls : calls[k].client = c /\ calls[k].timer = "armed" /\ calls[k].race = << >>
    /\ subscriptions # << >> \/ publishers # << >> \/ clients # << >>

(* C27: once a getUpsunContext() / getUrlParams() call has returned its    *)
(* result (a payload or null), the Client, Publisher and Subscription it   *)
(* created are not registered in the Bus any more.                         *)
C27_OneShotLeavesNoTrace ==
  \A k \in Calls :
    calls[k].race # << >> =>
      LET c == calls[k].client IN
        /\ c \notin Range(clients)
        /\ cliObj[c].pubSrv \notin Range(publishers)
        /\ cliObj[c].subSrv \notin Range(subscriptions)

(* C28: when two registered Clients on the same base topic each hold a     *)
(* pending request with the same id, one response envelope with that id    *)
(* resolves both calls with its payload and removes both entries.          *)
(* Stated of the handler run on the response in every reachable state of  *)
(* a listening Bus.                                                        *)
C28_SameIdBothResolved ==
  listening =>
    \A c1 \in Range(clients), c2 \in Range(clients) :
      (c1 # c2 /\ cliObj[c1].topic = cliObj[c2].topic) =>
        \A id \in DOMAIN PendingOf(c1) \cap DOMAIN PendingOf(c2), r \in ResponseData :
          LET after == MessageHandler(St, ResponseTo(c1, id, r), Quiet)
          IN /\ ResponseTo(c1, id, r) \in SdkEnvelopes
             /\ after.calls[PendingOf(c1)[id]].race = <<r>>
             /\ after.calls[PendingOf(c2)[id]].race = <<r>>
             /\ id \notin DOMAIN after.cliObj[c1].pending
             /\ id \notin DOMAIN after.cliObj[c2].pending

C28_Witness ==
  \E k \in Calls, j \in Calls :
    /\ k # j /\ calls[k].client # calls[j].client
    /\ cliObj[calls[k].client].topic = cliObj[calls[j].client].topic
    /\ calls[k].reqId = calls[j].reqId
    /\ calls[k].race \in {<<r>> : r \in ResponseData} /\ calls[j].race = calls[k].race
    /\ PendingOf(calls[k].client) = EmptyMap /\ PendingOf(calls[j].client) = EmptyMap
    /\ {notified[i].sub : i \in 1..Len(notified)} =
         {cliObj[calls[k].client].subSrv, cliObj[calls[j].client].subSrv}

(* C29: once destroy() has run on a PluginSDK, no observation of that      *)
(* instance (the ResizeObserver callback, or the initial report scheduled  *)
(* at construction) posts a size-report envelope.                          *)
C29_NoReportAfterDestroy ==
  [][\A i \in 1..Len(sdkObj), height \in Heights :
       (sdkObj[i].destroys > 0 /\ Observation(i, height)) => posted' = << >>]_vars

(* C30: the PluginSDK that getPluginSDK() returns is one whose destroy()   *)
(* has not run, whether an instance was destroyed by destroyPluginSDK() or *)
(* by destroy() called on it.                                              *)
(* Stated of getPluginSDK() called in every reachable state.               *)
C30_GetReturnsLiveInstance ==
  \A body \in BodyPresent :
    LET got == GetPluginSDKFn(St, body)
    IN got.sdkObj[got.held].destroys = 0

====
